---- MODULE Spec2Model ----
(***************************************************************************)
(* A model of metered-rs:                                                  *)
(*   - metered/src/hdr_histogram.rs: AtomicHdrHistogram, a saturating      *)
(*     HdrHistogram behind an AtomicRefCell (SpecHisto);                   *)
(*   - metered-macro/src/metered.rs: measure_list, the body rewriter of    *)
(*     the #[metered] macro (SpecWeave), and metered, the generator of the *)
(*     registry structs (SpecMacro).                                       *)
(***************************************************************************)
EXTENDS Integers, Sequences, FiniteSets, Bags, TLC

VARIABLES
    \* ---- AtomicHdrHistogram ----
    borrow,      \* AtomicRefCell borrow word: [writing |-> high bit, readers |-> low bits]
    histo,       \* hdrhistogram::Histogram<u64>: counts, total_count, max_value, min_non_zero_value
    pc,          \* per thread: position inside record / serialize
    arg,         \* per thread: the value passed to the record call in progress
    ser,         \* per thread: the entries written by the last serialize call
    calls,       \* number of record/serialize calls issued so far
    recCalls,    \* history: number of record calls issued so far
    recorded,    \* history: bag of the values of the record calls that reached HdrHistogram::record
    failedRec,   \* history: number of record calls that panicked in borrow_mut
    failedSer,   \* history: number of serialize calls that panicked in borrow
    \* ---- measure_list ----
    wfn,         \* the method handed to update_fn_block: [name, attrs, block]
    wpc,         \* "parsed" before update_fn_block, "woven" after
    wblock,      \* the tokens of the method's block
    \* ---- metered ----
    item,        \* the impl block given to the macro: sequence of [name, attrs, block]
    mpc,         \* position inside metered()
    woven_fns,   \* WovenImplBlock.woven_fns: ordered (fun_name, attrs) pairs
    woven_block, \* WovenImplBlock.woven_block: sequence of [name, attrs, block]
    reg_fields,  \* fields of the aggregate registry struct built so far
    code,        \* generated structs so far: sequence of [name, fields]
    iter,        \* position of the running "for ... in measured.iter()" loop
    result       \* what metered() returns: [returned, block, code]

histoVars == <<borrow, histo, pc, arg, ser, calls, recCalls, recorded, failedRec, failedSer>>
weaveVars == <<wfn, wpc, wblock>>
macroVars == <<item, mpc, woven_fns, woven_block, reg_fields, code, iter, result>>
vars == <<histoVars, weaveVars, macroVars>>

-----------------------------------------------------------------------------
(* Bounds *)

NThreads == 3       \* threads sharing one AtomicHdrHistogram
MaxCalls == 3       \* record/serialize calls issued in one behaviour
MaxInst == 2        \* #[measure] attribute instances on the method given to measure_list
MaxReq == 2         \* metric requests inside one #[measure] instance
MaxMethods == 3     \* methods of the impl block given to metered
MaxFields == 2      \* metric requests on one method of that impl block

Threads == 1..NThreads

\* values handed to record(): below the range, its lowest value, inside it, just
\* above the highest trackable value but inside the counts array, beyond the array
RecordValues == {0, 1, 1000, 400000, 1000000}

-----------------------------------------------------------------------------
(* Arithmetic helpers *)

Max(a, b) == IF a >= b THEN a ELSE b
Min(a, b) == IF a <= b THEN a ELSE b

RECURSIVE Pow2(_)
Pow2(n) == IF n = 0 THEN 1 ELSE 2 * Pow2(n - 1)

RECURSIVE Pow10(_)
Pow10(n) == IF n = 0 THEN 1 ELSE 10 * Pow10(n - 1)

\* 64 - leading_zeros(v): the number of significant bits of v
RECURSIVE BitLen(_)
BitLen(v) == IF v = 0 THEN 0 ELSE 1 + BitLen(v \div 2)

-----------------------------------------------------------------------------
(* hdrhistogram::Histogram<u64>::new_with_bounds(1, 5 * 60 * 1000, 2) *)

LowestDiscernibleValue == 1
HighestTrackableValue == 5 * 60 * 1000
SignificantValueDigits == 2

\* the layout new_with_bounds derives from (low, high, sigfig)
UnitMagnitude == BitLen(LowestDiscernibleValue) - 1
SubBucketHalfCountMagnitude == BitLen(2 * Pow10(SignificantValueDigits) - 1) - 1
SubBucketCount == Pow2(SubBucketHalfCountMagnitude + 1)
SubBucketHalfCount == SubBucketCount \div 2

\* buckets_to_cover(high): double the covered range until it exceeds high
RECURSIVE BucketsToCover(_, _)
BucketsToCover(smallestUntrackable, n) ==
    IF smallestUntrackable <= HighestTrackableValue
    THEN BucketsToCover(2 * smallestUntrackable, n + 1)
    ELSE n

BucketCount == BucketsToCover(SubBucketCount * Pow2(UnitMagnitude), 1)
CountsLen == (BucketCount + 1) * SubBucketHalfCount

\* index_for(value): the slot of the counts array a value falls into; the
\* bucket is found from the leading zeros of (value | sub_bucket_mask)
BucketIndexOf(v) ==
    Max(BitLen(v), SubBucketHalfCountMagnitude + 1 + UnitMagnitude)
        - UnitMagnitude - (SubBucketHalfCountMagnitude + 1)

SubBucketIndexOf(v, b) == v \div Pow2(b + UnitMagnitude)

IndexFor(v) ==
    LET b == BucketIndexOf(v)
    IN  (b + 1) * SubBucketHalfCount + (SubBucketIndexOf(v, b) - SubBucketHalfCount)

\* lowest_equivalent(value) / highest_equivalent(value)
LowestEquivalent(v) ==
    LET b == BucketIndexOf(v)
    IN  SubBucketIndexOf(v, b) * Pow2(b + UnitMagnitude)

HighestEquivalent(v) ==
    LowestEquivalent(v) + Pow2(BucketIndexOf(v) + UnitMagnitude) - 1

\* min_non_zero_value of a histogram without samples (u64::MAX in the crate)
NoMin == -1

DefaultHisto ==
    [counts |-> EmptyBag, total_count |-> 0, max_value |-> 0, min_non_zero_value |-> NoMin]

\* update_min_max(value); unit_magnitude_mask is 0 for a lowest value of 1
UpdateMinMax(h, v) ==
    [h EXCEPT !.max_value = IF v > @ THEN v ELSE @,
              !.min_non_zero_value = IF v # 0 /\ (@ = NoMin \/ v < @) THEN v ELSE @]

\* record_n_inner(value, 1, clamp = true): a value whose slot exists is counted
\* in that slot; only a value without a slot is replaced by the highest
\* trackable value (or the lowest discernible one)
SaturatingRecord(h, value) ==
    LET inArray == IndexFor(value) < CountsLen
        v == IF inArray THEN value
             ELSE IF value > HighestTrackableValue THEN HighestTrackableValue
             ELSE LowestDiscernibleValue
        counted == [h EXCEPT !.counts = @ (+) SetToBag({IndexFor(v)})]
    IN  [UpdateMinMax(counted, v) EXCEPT !.total_count = @ + 1]

\* a record that loses the update of a slot that already holds a sample
LossyRecord(h, value) ==
    IF BagIn(IndexFor(value), h.counts) THEN h ELSE SaturatingRecord(h, value)

\* HdrHistogram::record
HdrRecord(h, value) == SaturatingRecord(h, value)

\* Histogram::len, min, max as read by HdrHistogram::serialize
HistoLen(h) == h.total_count
HistoMin(h) ==
    IF h.total_count = 0 \/ BagIn(0, h.counts) THEN 0
    ELSE IF h.min_non_zero_value = NoMin THEN NoMin
    ELSE LowestEquivalent(h.min_non_zero_value)
HistoMax(h) == IF h.max_value = 0 THEN 0 ELSE HighestEquivalent(h.max_value)

\* impl Serialize for HdrHistogram: the entries are read-only queries
HdrSerialize(h) == [samples |-> HistoLen(h), min |-> HistoMin(h), max |-> HistoMax(h)]

-----------------------------------------------------------------------------
(* AtomicRefCell<HdrHistogram> *)

Unborrowed == [writing |-> FALSE, readers |-> 0]

\* a borrow_mut that does not look at the borrow word
AlwaysBorrowMut(b) == TRUE

\* AtomicRefCell::borrow_mut: compare_exchange(0, HIGH_BIT)
CanBorrowMut(b) == ~b.writing /\ b.readers = 0
BorrowMut(b) == [b EXCEPT !.writing = TRUE]

\* AtomicRefCell::borrow: fetch_add(1), an error when the high bit is set; the
\* increment of a failed borrow stays until the writer's release
AlwaysBorrow(b) == TRUE
CanBorrow(b) == ~b.writing
Borrow(b) == [b EXCEPT !.readers = @ + 1]

\* drop of AtomicRefMut: store(0); drop of AtomicRef: fetch_sub(1)
ReleaseMut(b) == Unborrowed
Release(b) == [b EXCEPT !.readers = @ - 1]

-----------------------------------------------------------------------------
(* AtomicHdrHistogram::record and serialize, one step per atomic operation *)

\* a new AtomicHdrHistogram shared by idle threads; the macro is not run
InitHisto ==
    /\ borrow = Unborrowed
    /\ histo = DefaultHisto
    /\ pc = [t \in Threads |-> "idle"]
    /\ arg = [t \in Threads |-> 0]
    /\ ser = [t \in Threads |-> HdrSerialize(DefaultHisto)]
    /\ calls = 0
    /\ recCalls = 0
    /\ recorded = EmptyBag
    /\ failedRec = 0
    /\ failedSer = 0
    \* measure_list and metered are not run
    /\ wfn = [name |-> <<>>, attrs |-> <<>>, block |-> <<>>]
    /\ wpc = "unused"
    /\ wblock = <<>>
    /\ item = <<>>
    /\ mpc = "unused"
    /\ woven_fns = <<>>
    /\ woven_block = <<>>
    /\ reg_fields = <<>>
    /\ code = <<>>
    /\ iter = 1
    /\ result = [returned |-> FALSE, block |-> <<>>, code |-> <<>>]

\* record: self.inner.borrow_mut() succeeds
RecordBorrowMut(t, v) ==
    /\ pc[t] = "idle" /\ calls < MaxCalls
    /\ CanBorrowMut(borrow)
    /\ borrow' = BorrowMut(borrow)
    /\ pc' = [pc EXCEPT ![t] = "recording"]
    /\ arg' = [arg EXCEPT ![t] = v]
    /\ calls' = calls + 1
    /\ recCalls' = recCalls + 1
    /\ UNCHANGED <<histo, ser, recorded, failedRec, failedSer>>
    /\ UNCHANGED <<weaveVars, macroVars>>

\* record: self.inner.borrow_mut() panics, the cell is already borrowed
RecordPanic(t) ==
    /\ pc[t] = "idle" /\ calls < MaxCalls
    /\ ~CanBorrowMut(borrow)
    /\ pc' = [pc EXCEPT ![t] = "panicked"]
    /\ calls' = calls + 1
    /\ recCalls' = recCalls + 1
    /\ failedRec' = failedRec + 1
    /\ UNCHANGED <<borrow, histo, arg, ser, recorded, failedSer>>
    /\ UNCHANGED <<weaveVars, macroVars>>

\* record: HdrHistogram::record(value) through the mutable borrow
RecordInner(t) ==
    /\ pc[t] = "recording"
    /\ histo' = HdrRecord(histo, arg[t])
    /\ recorded' = recorded (+) SetToBag({arg[t]})
    /\ pc' = [pc EXCEPT ![t] = "recorded"]
    /\ UNCHANGED <<borrow, arg, ser, calls, recCalls, failedRec, failedSer>>
    /\ UNCHANGED <<weaveVars, macroVars>>

\* record: the AtomicRefMut temporary is dropped at the end of the statement
RecordDrop(t) ==
    /\ pc[t] = "recorded"
    /\ borrow' = ReleaseMut(borrow)
    /\ pc' = [pc EXCEPT ![t] = "idle"]
    /\ UNCHANGED <<histo, arg, ser, calls, recCalls, recorded, failedRec, failedSer>>
    /\ UNCHANGED <<weaveVars, macroVars>>

\* serialize: self.inner.borrow() succeeds
SerializeBorrow(t) ==
    /\ pc[t] = "idle" /\ calls < MaxCalls
    /\ CanBorrow(borrow)
    /\ borrow' = Borrow(borrow)
    /\ pc' = [pc EXCEPT ![t] = "serializing"]
    /\ calls' = calls + 1
    /\ UNCHANGED <<histo, arg, ser, recCalls, recorded, failedRec, failedSer>>
    /\ UNCHANGED <<weaveVars, macroVars>>

\* serialize: self.inner.borrow() panics, the cell is mutably borrowed
SerializePanic(t) ==
    /\ pc[t] = "idle" /\ calls < MaxCalls
    /\ ~CanBorrow(borrow)
    /\ borrow' = Borrow(borrow)
    /\ pc' = [pc EXCEPT ![t] = "panicked"]
    /\ calls' = calls + 1
    /\ failedSer' = failedSer + 1
    /\ UNCHANGED <<histo, arg, ser, recCalls, recorded, failedRec>>
    /\ UNCHANGED <<weaveVars, macroVars>>

\* serialize: Serialize::serialize(rf, serializer), then inner is dropped
SerializeInner(t) ==
    /\ pc[t] = "serializing"
    /\ ser' = [ser EXCEPT ![t] = HdrSerialize(histo)]
    /\ borrow' = Release(borrow)
    /\ pc' = [pc EXCEPT ![t] = "idle"]
    /\ UNCHANGED <<histo, arg, calls, recCalls, recorded, failedRec, failedSer>>
    /\ UNCHANGED <<weaveVars, macroVars>>

NextHisto ==
    \E t \in Threads :
        \/ \E v \in RecordValues : RecordBorrowMut(t, v)
        \/ RecordPanic(t)
        \/ RecordInner(t)
        \/ RecordDrop(t)
        \/ SerializeBorrow(t)
        \/ SerializePanic(t)
        \/ SerializeInner(t)

-----------------------------------------------------------------------------
(* Tokens.  A token is a sequence of strings: an identifier is the sequence *)
(* of its characters, a keyword or punctuation mark a one-element sequence. *)
(* A token stream is a sequence of tokens.                                  *)

P(s) == <<s>>

\* the block of a method before weaving: { body }
OriginalBlock == <<P("{"), P("body"), P("}")>>

\* MetricRequest: the metric type named in #[measure(...)] and the field name
\* derived from it; field names are never taken apart, so each is one string
MetricRequests ==
    { [field_name |-> <<"hit_count">>, type_path |-> <<"HitCount">>],
      [field_name |-> <<"latency">>,   type_path |-> <<"ResponseTime">>] }

\* MetricRequest::ident(): the identifier of the request's field
MetricIdent(metric) == metric.field_name

\* MetricRequest::type_path()
MetricTypePath(metric) == metric.type_path

\* MeasureRequestAttribute::to_requests(): an attribute instance is kept as
\* the list of requests it stands for
ToRequests(measure_req_attr) == measure_req_attr

\* MeteredKeyValAttribute::to_metered() of #[metered(registry = Stats, registry_expr = self.stats)]
Metered ==
    [ registry_name  |-> <<"S", "t", "a", "t", "s">>,
      registry_ident |-> <<"S", "t", "a", "t", "s">>,
      registry_expr  |-> <<P("self"), P("."), P("stats")>> ]

SeqsUpTo(S, n) == UNION { [1..k -> S] : k \in 0..n }

-----------------------------------------------------------------------------
(* measure_list *)

\* metered::measure! { #metric_var, #inner }
Wrap(metric, inner) ==
    <<P("metered"), P("::"), P("measure"), P("!"), P("{"), MetricIdent(metric), P(",")>>
        \o inner \o <<P("}")>>

\* a binding that reads the field from the registry itself
BindWithoutFun(registry_expr, fun_ident, metric, inner) ==
    <<P("let"), metric.field_name, P("="), P("&")>> \o registry_expr
        \o <<P("."), metric.field_name, P(";")>> \o inner

\* let #metric_var = &#registry_expr.#fun_ident.#metric_var; #inner
Bind(registry_expr, fun_ident, metric, inner) ==
    <<P("let"), metric.field_name, P("="), P("&")>> \o registry_expr
        \o <<P("."), fun_ident, P("."), metric.field_name, P(";")>> \o inner

\* the inner loop "for metric in metric_requests.iter()" of the first pass
RECURSIVE WrapRequests(_, _, _)
WrapRequests(metric_requests, k, inner) ==
    IF k > Len(metric_requests) THEN inner
    ELSE WrapRequests(metric_requests, k + 1, Wrap(metric_requests[k], inner))

\* a first pass that wraps the requests of the last attribute first
RECURSIVE WrapPassLastFirst(_, _, _)
WrapPassLastFirst(measure_request_attrs, i, inner) ==
    IF i > Len(measure_request_attrs) THEN inner
    ELSE WrapRequests(ToRequests(measure_request_attrs[i]), 1,
                      WrapPassLastFirst(measure_request_attrs, i + 1, inner))

\* the first pass: "Recursive macro invocations"
RECURSIVE WrapPass(_, _, _)
WrapPass(measure_request_attrs, i, inner) ==
    IF i > Len(measure_request_attrs) THEN inner
    ELSE WrapPass(measure_request_attrs, i + 1,
                  WrapRequests(ToRequests(measure_request_attrs[i]), 1, inner))

\* the inner loop of the second pass
RECURSIVE BindRequests(_, _, _, _, _)
BindRequests(registry_expr, fun_ident, metric_requests, k, inner) ==
    IF k > Len(metric_requests) THEN inner
    ELSE BindRequests(registry_expr, fun_ident, metric_requests, k + 1,
                      Bind(registry_expr, fun_ident, metric_requests[k], inner))

\* a second pass that binds the requests of the last attribute first
RECURSIVE BindPassLastFirst(_, _, _, _, _)
BindPassLastFirst(registry_expr, fun_ident, measure_request_attrs, i, inner) ==
    IF i > Len(measure_request_attrs) THEN inner
    ELSE BindRequests(registry_expr, fun_ident, ToRequests(measure_request_attrs[i]), 1,
                      BindPassLastFirst(registry_expr, fun_ident, measure_request_attrs,
                                        i + 1, inner))

\* the second pass: "Let-bindings to avoid moving issues"
RECURSIVE BindPass(_, _, _, _, _)
BindPass(registry_expr, fun_ident, measure_request_attrs, i, inner) ==
    IF i > Len(measure_request_attrs) THEN inner
    ELSE BindPass(registry_expr, fun_ident, measure_request_attrs, i + 1,
                  BindRequests(registry_expr, fun_ident,
                               ToRequests(measure_request_attrs[i]), 1, inner))

\* "Add final braces"
AddBraces(inner) == <<P("{")>> \o inner \o <<P("}")>>

measure_list(registry_expr, fun_ident, measure_request_attrs, expr) ==
    AddBraces(BindPass(registry_expr, fun_ident, measure_request_attrs, 1,
                       WrapPass(measure_request_attrs, 1, expr)))

-----------------------------------------------------------------------------
(* MeteredWeave::update_fn_block *)

\* how many braces are open after the tokens i..j
Depth(toks, i, j) ==
    Cardinality({k \in i..j : toks[k] = P("{")}) - Cardinality({k \in i..j : toks[k] = P("}")})

\* the index of the brace closing the one opened at position i (0: none)
CloseOf(toks, i) ==
    LET closed == {j \in i..Len(toks) : toks[j] = P("}") /\ Depth(toks, i, j) = 0}
    IN  IF closed = {} THEN 0 ELSE CHOOSE j \in closed : \A k \in closed : j <= k

\* syn::parse::<syn::Block>: the stream is one brace-delimited group
ParsesAsBlock(toks) ==
    /\ Len(toks) >= 2
    /\ toks[1] = P("{")
    /\ CloseOf(toks, 1) = Len(toks)

\* update_fn_block: the new block, or "panic" when expect("block") fails
update_fn_block(item_fn, main_attr, fn_attr) ==
    LET r == measure_list(main_attr.registry_expr, item_fn.name, fn_attr, item_fn.block)
    IN  IF ParsesAsBlock(r) THEN r ELSE <<P("panic")>>

\* the method names the weaver is run on
WeaveNames == { <<"f", "e", "t", "c", "h">>, <<"g", "e", "t">> }

\* the #[measure] attribute lists of one method
AttrLists == SeqsUpTo(SeqsUpTo(MetricRequests, MaxReq), MaxInst) \ {<<>>}

InitWeave ==
    /\ wfn \in { [name |-> n, attrs |-> a, block |-> OriginalBlock] :
                    n \in WeaveNames, a \in AttrLists }
    /\ wpc = "parsed"
    /\ wblock = OriginalBlock
    \* the histogram and metered are not run
    /\ borrow = Unborrowed
    /\ histo = DefaultHisto
    /\ pc = [t \in Threads |-> "idle"]
    /\ arg = [t \in Threads |-> 0]
    /\ ser = [t \in Threads |-> HdrSerialize(DefaultHisto)]
    /\ calls = 0
    /\ recCalls = 0
    /\ recorded = EmptyBag
    /\ failedRec = 0
    /\ failedSer = 0
    /\ item = <<>>
    /\ mpc = "unused"
    /\ woven_fns = <<>>
    /\ woven_block = <<>>
    /\ reg_fields = <<>>
    /\ code = <<>>
    /\ iter = 1
    /\ result = [returned |-> FALSE, block |-> <<>>, code |-> <<>>]

UpdateFnBlock ==
    /\ wpc = "parsed"
    /\ wblock' = update_fn_block(wfn, Metered, wfn.attrs)
    /\ wpc' = "woven"
    /\ UNCHANGED wfn
    /\ UNCHANGED <<histoVars, macroVars>>

NextWeave == UpdateFnBlock

-----------------------------------------------------------------------------
(* heck::CamelCase::to_camel_case on identifiers *)

Lowers == <<"a", "b", "c", "d", "e", "f", "g", "h", "i", "j", "k", "l", "m",
            "n", "o", "p", "q", "r", "s", "t", "u", "v", "w", "x", "y", "z">>
Uppers == <<"A", "B", "C", "D", "E", "F", "G", "H", "I", "J", "K", "L", "M",
            "N", "O", "P", "Q", "R", "S", "T", "U", "V", "W", "X", "Y", "Z">>

IsLowercase(c) == \E i \in DOMAIN Lowers : Lowers[i] = c
IsUppercase(c) == \E i \in DOMAIN Uppers : Uppers[i] = c
IsAlphanumeric(c) == IsLowercase(c) \/ IsUppercase(c)
ToUppercase(c) ==
    IF IsLowercase(c) THEN Uppers[CHOOSE i \in DOMAIN Lowers : Lowers[i] = c] ELSE c
ToLowercase(c) ==
    IF IsUppercase(c) THEN Lowers[CHOOSE i \in DOMAIN Uppers : Uppers[i] = c] ELSE c

\* s.split(|c| !c.is_alphanumeric()): the pieces between the separators
RECURSIVE SplitWords(_, _, _)
SplitWords(s, i, cur) ==
    IF i > Len(s) THEN <<cur>>
    ELSE IF IsAlphanumeric(s[i]) THEN SplitWords(s, i + 1, Append(cur, s[i]))
    ELSE <<cur>> \o SplitWords(s, i + 1, <<>>)

\* capitalize: the first character in upper case, the others in lower case
Capitalize(w) ==
    [k \in DOMAIN w |-> IF k = 1 THEN ToUppercase(w[k]) ELSE ToLowercase(w[k])]

\* the loop of heck's transform over one piece: a word ends before an upper
\* case letter that follows a lower case one, and before the last upper case
\* letter of a run that a lower case letter follows
RECURSIVE TransformWord(_, _, _, _)
TransformWord(word, i, init, mode) ==
    IF i > Len(word) THEN <<>>
    ELSE IF i = Len(word) THEN Capitalize(SubSeq(word, init, Len(word)))
    ELSE LET c == word[i]
             next == word[i + 1]
             next_mode == IF IsLowercase(c) THEN "Lowercase"
                          ELSE IF IsUppercase(c) THEN "Uppercase" ELSE mode
         IN  IF next_mode = "Lowercase" /\ IsUppercase(next)
             THEN Capitalize(SubSeq(word, init, i))
                      \o TransformWord(word, i + 1, i + 1, "Boundary")
             ELSE IF mode = "Uppercase" /\ IsUppercase(c) /\ IsLowercase(next)
             THEN Capitalize(SubSeq(word, init, i - 1))
                      \o TransformWord(word, i + 1, i, "Boundary")
             ELSE TransformWord(word, i + 1, init, next_mode)

RECURSIVE TransformWords(_, _)
TransformWords(words, k) ==
    IF k > Len(words) THEN <<>>
    ELSE TransformWord(words[k], 1, 1, "Boundary") \o TransformWords(words, k + 1)

to_camel_case(s) == TransformWords(SplitWords(s, 1, <<>>), 1)

-----------------------------------------------------------------------------
(* aspect_weave::weave_impl_block::<MeteredWeave> *)

\* a method carries #[measure] attributes or none
IsMeasured(m) == m.attrs # <<>>

\* woven_fns: the measured methods with their parsed attributes, in
\* declaration order
RECURSIVE WovenFns(_, _)
WovenFns(methods, k) ==
    IF k > Len(methods) THEN <<>>
    ELSE (IF IsMeasured(methods[k])
          THEN <<[fun_name |-> methods[k].name, attrs |-> methods[k].attrs]>>
          ELSE <<>>) \o WovenFns(methods, k + 1)

\* woven_block: a measured method gets the block update_fn_block returns and
\* loses its #[measure] attributes, any other method is left as it is
WovenBlock(methods, main_attr) ==
    [k \in DOMAIN methods |->
        IF IsMeasured(methods[k])
        THEN [name  |-> methods[k].name,
              attrs |-> <<>>,
              block |-> update_fn_block(methods[k], main_attr, methods[k].attrs)]
        ELSE methods[k]]

-----------------------------------------------------------------------------
(* metered *)

\* format!("{}{}", registry_name, fun_name.to_string().to_camel_case())
FunRegName(registry_name, fun_name) == registry_name \o to_camel_case(fun_name)

\* a field put in front of the fields gathered so far
PushRegField(fields, fun_name, fun_registry_ident) ==
    <<[name |-> fun_name, type |-> fun_registry_ident]>> \o fields

\* reg_fields = quote! { #reg_fields #fun_name : #fun_registry_ident, }
AddRegField(fields, fun_name, fun_registry_ident) ==
    Append(fields, [name |-> fun_name, type |-> fun_registry_ident])

\* fun_reg_fields = quote! { #fun_reg_fields #metric_field : #metric_type, }
AddFunRegField(fields, metric) ==
    Append(fields, [name |-> MetricIdent(metric), type |-> MetricTypePath(metric)])

RECURSIVE FunRegFieldsOfRequests(_, _, _)
FunRegFieldsOfRequests(metric_requests, k, fields) ==
    IF k > Len(metric_requests) THEN fields
    ELSE FunRegFieldsOfRequests(metric_requests, k + 1,
                                AddFunRegField(fields, metric_requests[k]))

\* the loops building fun_reg_fields for one measured method
RECURSIVE FunRegFields(_, _, _)
FunRegFields(measure_request_attrs, i, fields) ==
    IF i > Len(measure_request_attrs) THEN fields
    ELSE FunRegFields(measure_request_attrs, i + 1,
                      FunRegFieldsOfRequests(ToRequests(measure_request_attrs[i]), 1, fields))

\* #[derive(Debug, Default, serde::Serialize)] struct #name { #fields }
Struct(name, fields) == [name |-> name, fields |-> fields]

\* the method names of the impl blocks given to the macro
MacroNames ==
    { <<"f", "e", "t", "c", "h", "_", "u", "s", "e", "r">>,
      <<"f", "e", "t", "c", "h", "U", "s", "e", "r">>,
      <<"g", "e", "t">> }

\* the metric requested on the methods of these impl blocks
MacroRequests == { r \in MetricRequests : r.field_name = <<"hit_count">> }

RECURSIVE TotalRequests(_)
TotalRequests(attrs) ==
    IF attrs = <<>> THEN 0 ELSE Len(Head(attrs)) + TotalRequests(Tail(attrs))

\* #[measure] lists of at most MaxFields requests: a bare #[measure], or
\* instances that each name at least one metric
MacroAttrLists ==
    { a \in SeqsUpTo(SeqsUpTo(MacroRequests, MaxFields), MaxFields) :
        /\ a # <<>>
        /\ TotalRequests(a) <= MaxFields
        /\ (Len(a) > 1 => \A i \in DOMAIN a : a[i] # <<>>) }

MacroMethods ==
    { [name |-> n, attrs |-> a, block |-> OriginalBlock] :
        n \in MacroNames, a \in MacroAttrLists \cup {<<>>} }

\* impl blocks: up to MaxMethods methods with different names
MacroItems ==
    { it \in SeqsUpTo(MacroMethods, Min(MaxMethods, Cardinality(MacroNames))) :
        \A i, j \in DOMAIN it : i # j => it[i].name # it[j].name }

NotReturned == [returned |-> FALSE, block |-> <<>>, code |-> <<>>]

InitMacro ==
    /\ item \in MacroItems
    /\ mpc = "start"
    /\ woven_fns = <<>>
    /\ woven_block = <<>>
    /\ reg_fields = <<>>
    /\ code = <<>>
    /\ iter = 1
    /\ result = NotReturned
    \* the histogram and update_fn_block alone are not run
    /\ borrow = Unborrowed
    /\ histo = DefaultHisto
    /\ pc = [t \in Threads |-> "idle"]
    /\ arg = [t \in Threads |-> 0]
    /\ ser = [t \in Threads |-> HdrSerialize(DefaultHisto)]
    /\ calls = 0
    /\ recCalls = 0
    /\ recorded = EmptyBag
    /\ failedRec = 0
    /\ failedSer = 0
    /\ wfn = [name |-> <<>>, attrs |-> <<>>, block |-> <<>>]
    /\ wpc = "unused"
    /\ wblock = <<>>

\* let woven_impl_block = weave_impl_block::<MeteredWeave>(attrs, item)?
WeaveImplBlock ==
    /\ mpc = "start"
    /\ woven_fns' = WovenFns(item, 1)
    /\ woven_block' = WovenBlock(item, Metered)
    /\ iter' = 1
    /\ mpc' = "reg_fields"
    /\ UNCHANGED <<item, reg_fields, code, result>>
    /\ UNCHANGED <<histoVars, weaveVars>>

\* one iteration of the first "for (fun_name, _) in measured.iter()"
RegFieldsStep ==
    /\ mpc = "reg_fields"
    /\ iter <= Len(woven_fns)
    /\ LET fun_name == woven_fns[iter].fun_name
           fun_reg_name == FunRegName(Metered.registry_name, fun_name)
       IN  reg_fields' = AddRegField(reg_fields, fun_name, fun_reg_name)
    /\ iter' = iter + 1
    /\ UNCHANGED <<item, mpc, woven_fns, woven_block, code, result>>
    /\ UNCHANGED <<histoVars, weaveVars>>

\* the registry struct is emitted once the loop is over; drop(reg_fields)
EmitRegistry ==
    /\ mpc = "reg_fields"
    /\ iter > Len(woven_fns)
    /\ code' = Append(code, Struct(Metered.registry_ident, reg_fields))
    /\ reg_fields' = <<>>
    /\ iter' = 1
    /\ mpc' = "fun_registries"
    /\ UNCHANGED <<item, woven_fns, woven_block, result>>
    /\ UNCHANGED <<histoVars, weaveVars>>

\* one iteration of "for (fun_name, measure_request_attrs) in measured.iter()"
FunRegistryStep ==
    /\ mpc = "fun_registries"
    /\ iter <= Len(woven_fns)
    /\ LET fun_name == woven_fns[iter].fun_name
           fun_reg_name == FunRegName(Metered.registry_name, fun_name)
           fun_reg_fields == FunRegFields(woven_fns[iter].attrs, 1, <<>>)
       IN  code' = Append(code, Struct(fun_reg_name, fun_reg_fields))
    /\ iter' = iter + 1
    /\ UNCHANGED <<item, mpc, woven_fns, woven_block, reg_fields, result>>
    /\ UNCHANGED <<histoVars, weaveVars>>

\* code = quote! { #impl_block #code }; Ok(result)
Return ==
    /\ mpc = "fun_registries"
    /\ iter > Len(woven_fns)
    /\ result' = [returned |-> TRUE, block |-> woven_block, code |-> code]
    /\ mpc' = "done"
    /\ UNCHANGED <<item, woven_fns, woven_block, reg_fields, code, iter>>
    /\ UNCHANGED <<histoVars, weaveVars>>

NextMacro ==
    \/ WeaveImplBlock
    \/ RegFieldsStep
    \/ EmitRegistry
    \/ FunRegistryStep
    \/ Return

-----------------------------------------------------------------------------
(* Specifications *)

\* threads calling record and serialize on one AtomicHdrHistogram
SpecHisto == InitHisto /\ [][NextHisto]_vars

\* update_fn_block on one method
SpecWeave == InitWeave /\ [][NextWeave]_vars

\* metered on one impl block
SpecMacro == InitMacro /\ [][NextMacro]_vars

-----------------------------------------------------------------------------
(* Properties of AtomicHdrHistogram (SpecHisto) *)

\* a thread is between borrow_mut() and the drop of the mutable borrow
InRecord(u) == pc[u] \in {"recording", "recorded"}
\* a thread is between borrow() and the drop of the shared borrow
InSerialize(u) == pc[u] = "serializing"

\* the histogram a bag of values gives when they are recorded one by one
RECURSIVE Replay(_)
Replay(values) ==
    IF values = EmptyBag THEN DefaultHisto
    ELSE LET v == CHOOSE x \in BagToSet(values) : TRUE
         IN  SaturatingRecord(Replay(values (-) SetToBag({v})), v)

\* C1: a record call issued while another record call holds the guard does not
\* enter the critical section: it fails in the step that issues it and leaves
\* the histogram as it is; the histogram always holds exactly the samples of
\* the record calls that got the guard, and every issued record call is one
\* of: recorded, failed, or holding the guard without having recorded yet.
C1_FailFast ==
    /\ [][\A t \in Threads :
            /\ (pc[t] = "idle" /\ pc'[t] = "recording") => \A u \in Threads : ~InRecord(u)
            /\ (pc[t] = "idle" /\ recCalls' = recCalls + 1
                    /\ pc'[t] # "idle" /\ \E u \in Threads : InRecord(u))
                => (pc'[t] = "panicked" /\ failedRec' = failedRec + 1 /\ histo' = histo)]_vars
    /\ [](histo = Replay(recorded))
    /\ [](recCalls = BagCardinality(recorded) + failedRec
                        + Cardinality({t \in Threads : pc[t] = "recording"}))

\* three record calls and no serialize call were issued, one of them while
\* another held the guard: it failed, the holder finished, two samples are in
C1_Witness ==
    /\ calls = 3 /\ recCalls = 3 /\ failedRec = 1
    /\ \A t \in Threads : ~InRecord(t)
    /\ histo.total_count = 2

\* C2: a record call fails only when it is issued while another call is inside
\* its critical section, and once all calls are over and none has failed the
\* sample count equals the number of record calls.
C2_NoLostUpdates ==
    /\ [][\A t \in Threads :
            (pc[t] = "idle" /\ pc'[t] = "panicked" /\ recCalls' = recCalls + 1)
                => \E u \in Threads \ {t} : InRecord(u) \/ InSerialize(u)]_vars
    /\ [](((\A t \in Threads : pc[t] = "idle") /\ failedRec = 0)
            => HistoLen(histo) = recCalls)

\* three record calls, one after the other, all counted
C2_Witness ==
    /\ \A t \in Threads : pc[t] = "idle"
    /\ recCalls = 3 /\ failedRec = 0
    /\ HistoLen(histo) = 3

\* C3: serialize takes the guard in shared mode: it enters only while no
\* record call holds the guard, it fails only while one does (so it succeeds
\* next to other serialize calls), record does not enter while a serialize
\* call holds the guard, and no step of a serialize call changes the histogram.
C3_SharedSerialize ==
    [][\A t \in Threads :
        /\ (pc[t] = "idle" /\ pc'[t] = "serializing") => \A u \in Threads : ~InRecord(u)
        /\ (pc[t] = "idle" /\ pc'[t] = "panicked" /\ failedSer' = failedSer + 1)
            => \E u \in Threads \ {t} : InRecord(u)
        /\ (pc[t] = "idle" /\ pc'[t] = "recording") => \A u \in Threads : ~InSerialize(u)
        /\ (pc'[t] = "serializing" \/ pc[t] = "serializing" \/ failedSer' # failedSer)
            => histo' = histo]_vars

\* two serialize calls hold the guard at once, after a sample was recorded
C3_Witness ==
    /\ \E t, u \in Threads : t # u /\ InSerialize(t) /\ InSerialize(u)
    /\ histo.total_count > 0

\* the value the claim says is stored: max(1, min(v, 300000))
Clamped(v) == Max(1, Min(v, 300000))

\* C4: record(v) adds exactly one sample and the sample it stores is
\* max(1, min(v, 300000)); so record(0) and record(1) give the same histogram.
C4_StoresClamped ==
    [][\A t \in Threads :
        (pc[t] = "recording" /\ pc'[t] = "recorded")
            => /\ histo'.total_count = histo.total_count + 1
               /\ histo'.counts = histo.counts (+) SetToBag({IndexFor(Clamped(arg[t]))})]_vars

-----------------------------------------------------------------------------
(* Properties of measure_list (SpecWeave) *)

\* the requests of a method in declaration order: attribute instance order,
\* then request order inside an instance
RECURSIVE Flatten(_)
Flatten(attrs) == IF attrs = <<>> THEN <<>> ELSE Head(attrs) \o Flatten(Tail(attrs))

\* the k-th smallest element of a set of positions
Kth(S, k) == CHOOSE x \in S : Cardinality({y \in S : y < x}) = k - 1

\* the positions of the "measure" and of the "let" tokens
MeasureAt(toks) == {i \in DOMAIN toks : toks[i] = P("measure")}
LetAt(toks) == {i \in DOMAIN toks : toks[i] = P("let")}

\* let v = & registry_expr . fun . field ;
LetStatement(v, fun, field) ==
    <<P("let"), v, P("="), P("&")>> \o Metered.registry_expr
        \o <<P("."), fun, P("."), field, P(";")>>
LetLen == Len(LetStatement(<<>>, <<>>, <<>>))

\* the wrapper whose "measure" token is at m: metered :: measure ! { var , ... }
WrapperStart(m) == m - 2
WrapperOpen(m) == m + 2
WrapperVar(toks, m) == toks[m + 3]
WrapperArgStart(m) == m + 5

\* C5: with requests [r1..rn] in declaration order there are n wrappers, the
\* k-th from the outside is the one of r(n+1-k), it directly encloses the next
\* one, and the innermost, r1's, directly encloses the original body.
C5_WrapNesting ==
    wpc = "woven" =>
        LET reqs == Flatten(wfn.attrs)
            n == Len(reqs)
            M == MeasureAt(wblock)
        IN  /\ Cardinality(M) = n
            /\ \A k \in 1..n :
                LET m == Kth(M, k)
                    close == CloseOf(wblock, WrapperOpen(m))
                IN  /\ WrapperVar(wblock, m) = MetricIdent(reqs[n + 1 - k])
                    /\ wblock[WrapperOpen(m)] = P("{")
                    /\ close # 0
                    /\ IF k < n
                       THEN /\ WrapperStart(Kth(M, k + 1)) = WrapperArgStart(m)
                            /\ CloseOf(wblock, WrapperOpen(Kth(M, k + 1))) = close - 1
                       ELSE SubSeq(wblock, WrapperArgStart(m), close - 1) = wfn.block

\* a method with two different requests at the ends of its list was woven
C5_Witness ==
    /\ wpc = "woven"
    /\ Len(wfn.attrs) = 2
    /\ Len(Flatten(wfn.attrs)) >= 3
    /\ Flatten(wfn.attrs)[1] # Flatten(wfn.attrs)[Len(Flatten(wfn.attrs))]

\* C6 as stated: the k-th binding from the outside is the one of rk, so r1's
\* binding is the first and rn's is the last before the wrapped body.
C6_BindingsInDeclarationOrder ==
    wpc = "woven" =>
        LET reqs == Flatten(wfn.attrs)
            L == LetAt(wblock)
        IN  /\ Cardinality(L) = Len(reqs)
            /\ \A k \in 1..Len(reqs) : wblock[Kth(L, k) + 1] = reqs[k].field_name

\* C6 amended: the bindings are n consecutive statements at the start of the
\* block, the k-th from the outside is the one of r(n+1-k): rn's binding is
\* the first and r1's is the last, immediately before the wrapped body.
C6_BindingsInReverseOrder ==
    wpc = "woven" =>
        LET reqs == Flatten(wfn.attrs)
            n == Len(reqs)
            L == LetAt(wblock)
            bodyAt == 2 + n * LetLen
        IN  /\ Cardinality(L) = n
            /\ \A k \in 1..n :
                /\ Kth(L, k) = 2 + (k - 1) * LetLen
                /\ wblock[Kth(L, k) + 1] = reqs[n + 1 - k].field_name
            /\ IF n = 0
               THEN SubSeq(wblock, bodyAt, Len(wblock) - 1) = wfn.block
               ELSE WrapperStart(Kth(MeasureAt(wblock), 1)) = bodyAt

\* a method whose first and last request differ was woven
C6_Witness ==
    /\ wpc = "woven"
    /\ Len(Flatten(wfn.attrs)) >= 2
    /\ Flatten(wfn.attrs)[1].field_name
          # Flatten(wfn.attrs)[Len(Flatten(wfn.attrs))].field_name

\* C10: the rewritten body is one braced block; every request has a binding
\* let v = &registry_expr.method.field_name, the n bindings end before the
\* outermost wrapper starts, and the name each wrapper measures is bound by
\* one of them.
C10_BindingsOutsideWrappers ==
    wpc = "woven" =>
        LET reqs == Flatten(wfn.attrs)
            n == Len(reqs)
            L == LetAt(wblock)
            M == MeasureAt(wblock)
        IN  /\ wblock[1] = P("{")
            /\ CloseOf(wblock, 1) = Len(wblock)
            /\ Cardinality(L) = n
            /\ \A l \in L : \A m \in M : l + LetLen - 1 < WrapperStart(m)
            /\ \A l \in L : \E k \in 1..n :
                    SubSeq(wblock, l, l + LetLen - 1)
                        = LetStatement(reqs[k].field_name, wfn.name, reqs[k].field_name)
            /\ \A k \in 1..n : \E l \in L : wblock[l + 1] = reqs[k].field_name
            /\ \A m \in M : \E l \in L : wblock[l + 1] = WrapperVar(wblock, m)

\* a method with requests in two attribute instances was woven
C10_Witness ==
    /\ wpc = "woven"
    /\ Len(wfn.attrs) = 2
    /\ \A i \in DOMAIN wfn.attrs : wfn.attrs[i] # <<>>
    /\ MeasureAt(wblock) # {}

-----------------------------------------------------------------------------
(* Properties of metered (SpecMacro) *)

\* the measured methods of the impl block, in declaration order
Measured == SelectSeq(item, LAMBDA m : m.attrs # <<>>)

\* C7: the output holds the registry struct followed by one struct per
\* measured method; the registry struct has one field per measured method,
\* in declaration order, named after the method and typed with the struct
\* generated for it, whose name is registry_name + CamelCase(method).
C7_RegistryShape ==
    mpc = "done" =>
        LET M == Len(Measured)
            c == result.code
        IN  /\ result.returned
            /\ Len(c) = M + 1
            /\ c[1].name = Metered.registry_ident
            /\ Len(c[1].fields) = M
            /\ \A k \in 1..M :
                /\ c[1].fields[k].name = Measured[k].name
                /\ c[1].fields[k].type = c[k + 1].name
                /\ c[k + 1].name = Metered.registry_name \o to_camel_case(Measured[k].name)
            /\ Len(result.block) = Len(item)
            /\ \A i \in DOMAIN item : ~IsMeasured(item[i]) => result.block[i] = item[i]

\* an impl block with two measured methods and one without #[measure]
C7_Witness ==
    /\ mpc = "done"
    /\ Len(Measured) = 2
    /\ Len(item) = 3
    /\ ~IsMeasured(item[2])

\* a method requests the same field name twice
HasDuplicateField(m) ==
    LET reqs == Flatten(m.attrs)
    IN  \E i, j \in DOMAIN reqs : i # j /\ reqs[i].field_name = reqs[j].field_name

\* C8: no impl block in which a method requests the same field name twice
\* yields an output.
C8_DuplicateFieldRejected ==
    (mpc = "done" /\ result.returned) => \A i \in DOMAIN item : ~HasDuplicateField(item[i])

\* C9: the generated struct names differ from one another: the names of the
\* structs of two methods differ, and none is the name of the registry struct.
C9_TypeNamesUnique ==
    mpc = "done" =>
        \A i, j \in DOMAIN result.code :
            i # j => result.code[i].name # result.code[j].name

====
